---- MODULE Spec2Model ----
(***************************************************************************)
(* Model of whisper_api.py: the FastAPI word splitter.                     *)
(*                                                                         *)
(* POST /transcribe_sse streams status events while it stores the upload,  *)
(* decodes it, runs the recognizer and cuts one padded clip per word;      *)
(* POST /transcribe returns the recognizer's result as one JSON record;    *)
(* DELETE /audio_files removes the files of the output directory.          *)
(*                                                                         *)
(* The clip bounds are computed by Python in binary64 floating point and   *)
(* truncated by int(); the model computes them bit for bit, on naturals    *)
(* of arbitrary size kept as sequences of 15-bit limbs.                    *)
(***************************************************************************)
EXTENDS Integers, Sequences, FiniteSets, TLC

(***************************************************************************)
(* Naturals of arbitrary size: little-endian sequences of limbs, each in   *)
(* 0 .. LimbBase-1, with no zero limb at the high end (zero is << >>).     *)
(* Products of two limbs stay below 2^31.                                  *)
(***************************************************************************)
RECURSIVE NatBits(_)
NatBits(n) == IF n = 0 THEN 0 ELSE 1 + NatBits(n \div 2)

LimbBase == 2^15
LimbBits == NatBits(LimbBase) - 1

Rest(a) == IF a = <<>> THEN <<>> ELSE Tail(a)
Limb(a, i) == IF i <= Len(a) THEN a[i] ELSE 0

RECURSIVE BigTrim(_)
BigTrim(a) ==
    IF a = <<>> THEN a
    ELSE IF a[Len(a)] = 0 THEN BigTrim(SubSeq(a, 1, Len(a) - 1)) ELSE a

RECURSIVE BigOfNat(_)
BigOfNat(n) ==
    IF n = 0 THEN <<>> ELSE <<n % LimbBase>> \o BigOfNat(n \div LimbBase)

RECURSIVE NatOfBig(_)
NatOfBig(a) == IF a = <<>> THEN 0 ELSE a[1] + LimbBase * NatOfBig(Tail(a))

RECURSIVE BigAddC(_, _, _)
BigAddC(a, b, c) ==
    IF a = <<>> /\ b = <<>> THEN (IF c = 0 THEN <<>> ELSE <<c>>)
    ELSE LET s == Limb(a, 1) + Limb(b, 1) + c
         IN  <<s % LimbBase>> \o BigAddC(Rest(a), Rest(b), s \div LimbBase)

BigAdd(a, b) == BigAddC(a, b, 0)

\* a - b - c for a >= b + c
RECURSIVE BigSubC(_, _, _)
BigSubC(a, b, c) ==
    IF a = <<>> THEN <<>>
    ELSE LET d == a[1] - Limb(b, 1) - c
         IN  IF d < 0 THEN <<d + LimbBase>> \o BigSubC(Tail(a), Rest(b), 1)
                      ELSE <<d>> \o BigSubC(Tail(a), Rest(b), 0)

BigSub(a, b) == BigTrim(BigSubC(a, b, 0))

\* -1, 0, 1 as a < b, a = b, a > b
RECURSIVE BigCmp(_, _)
BigCmp(a, b) ==
    IF Len(a) # Len(b) THEN (IF Len(a) < Len(b) THEN -1 ELSE 1)
    ELSE IF a = <<>> THEN 0
    ELSE IF a[Len(a)] # b[Len(b)] THEN (IF a[Len(a)] < b[Len(b)] THEN -1 ELSE 1)
    ELSE BigCmp(BigTrim(SubSeq(a, 1, Len(a) - 1)), BigTrim(SubSeq(b, 1, Len(b) - 1)))

\* a * k + c for a limb k
RECURSIVE BigMulSmallC(_, _, _)
BigMulSmallC(a, k, c) ==
    IF a = <<>> THEN (IF c = 0 THEN <<>> ELSE <<c>>)
    ELSE LET p == a[1] * k + c
         IN  <<p % LimbBase>> \o BigMulSmallC(Tail(a), k, p \div LimbBase)

BigMulSmall(a, k) == BigTrim(BigMulSmallC(a, k, 0))

RECURSIVE BigMul(_, _)
BigMul(a, b) ==
    IF b = <<>> \/ a = <<>> THEN <<>>
    ELSE BigAdd(BigMulSmall(a, b[1]),
                LET hi == BigMul(a, Tail(b)) IN IF hi = <<>> THEN <<>> ELSE <<0>> \o hi)

\* quotient and remainder of a by k, 0 < k <= LimbBase
RECURSIVE BigDivSmallR(_, _)
BigDivSmallR(a, k) ==
    IF a = <<>> THEN [q |-> <<>>, r |-> 0]
    ELSE LET hi  == BigDivSmallR(Tail(a), k)
             cur == hi.r * LimbBase + a[1]
         IN  [q |-> <<cur \div k>> \o hi.q, r |-> cur % k]

BigDivSmall(a, k) ==
    LET d == BigDivSmallR(a, k) IN [q |-> BigTrim(d.q), r |-> d.r]

Zeros(n) == [i \in 1..n |-> 0]

\* a * 2^n and floor(a / 2^n)
BigShl(a, n) ==
    IF a = <<>> THEN <<>>
    ELSE BigMulSmall(Zeros(n \div LimbBits) \o a, 2^(n % LimbBits))

BigShr(a, n) ==
    IF n \div LimbBits >= Len(a) THEN <<>>
    ELSE BigDivSmall(SubSeq(a, (n \div LimbBits) + 1, Len(a)), 2^(n % LimbBits)).q

BitLen(a) == IF a = <<>> THEN 0 ELSE LimbBits * (Len(a) - 1) + NatBits(a[Len(a)])

BigOdd(a) == a # <<>> /\ a[1] % 2 = 1

(***************************************************************************)
(* Python floats (IEEE 754 binary64): [neg, m, e] stands for               *)
(* (-1)^neg * m * 2^e with m a natural of at most MantBits bits.  Every    *)
(* operation computes the exact result and rounds it to the nearest        *)
(* representable value, ties to even.  The values of the model stay far    *)
(* from the overflow and subnormal ranges.                                 *)
(***************************************************************************)
MantBits == 53

\* round m * 2^e to MantBits bits, ties to even
RoundNearestEven(neg, m, e) ==
    IF BitLen(m) <= MantBits THEN [neg |-> neg, m |-> m, e |-> e]
    ELSE LET sh   == BitLen(m) - MantBits
             q    == BigShr(m, sh)
             r    == BigSub(m, BigShl(q, sh))
             half == BigShl(<<1>>, sh - 1)
             c    == BigCmp(r, half)
             up   == c > 0 \/ (c = 0 /\ BigOdd(q))
         IN  [neg |-> neg, m |-> IF up THEN BigAdd(q, <<1>>) ELSE q, e |-> e + sh]

FNeg(x) == [x EXCEPT !.neg = ~x.neg]

FAdd(x, y) ==
    LET e  == IF x.e < y.e THEN x.e ELSE y.e
        ax == BigShl(x.m, x.e - e)
        ay == BigShl(y.m, y.e - e)
    IN  IF x.neg = y.neg THEN RoundNearestEven(x.neg, BigAdd(ax, ay), e)
        ELSE IF BigCmp(ax, ay) >= 0 THEN RoundNearestEven(x.neg, BigSub(ax, ay), e)
        ELSE RoundNearestEven(y.neg, BigSub(ay, ax), e)

FSub(x, y) == FAdd(x, FNeg(y))

FMul(x, y) == RoundNearestEven(x.neg # y.neg, BigMul(x.m, y.m), x.e + y.e)

\* the float of an int (exact below 2^53)
FloatOfInt(n) ==
    [neg |-> n < 0, m |-> BigOfNat(IF n < 0 THEN -n ELSE n), e |-> 0]

\* the float nearest to n / d, as Python's n / d and the literal it prints as
\* (0 <= n, 0 < d <= LimbBase, n / d >= 1 / LimbBase unless n = 0)
FloatOfRatio(n, d) ==
    IF n = 0 THEN FloatOfInt(0)
    ELSE LET k  == MantBits + LimbBits + 2
             qr == BigDivSmall(BigShl(BigOfNat(n), k), d)
             \* one more bit below the quotient: set iff the division left a remainder
             m  == BigAdd(BigShl(qr.q, 1), IF qr.r = 0 THEN <<>> ELSE <<1>>)
         IN  RoundNearestEven(FALSE, m, 0 - (k + 1))

\* int(x): truncation toward zero
IntOfFloat(x) ==
    LET mag == IF x.e >= 0 THEN BigShl(x.m, x.e) ELSE BigShr(x.m, 0 - x.e)
    IN  IF x.neg THEN 0 - NatOfBig(mag) ELSE NatOfBig(mag)

(***************************************************************************)
(* Settings (lines 21-25) and the bounds of the model.                     *)
(***************************************************************************)
MaxReq == 2              \* requests the service receives
MaxClock == 1            \* readings the wall clock takes: 0 .. MaxClock
MaxSegs == 2             \* segments of a recognizer result
MaxSegWords == 1         \* words of a segment
MaxCalls == 2            \* direct calls of save_word_audio
TimeUnit == 100          \* word times are given in 1/TimeUnit seconds
TimeStep == 20           \* grid of the word times of the bounds check
MaxTimeK == 32
LenStep == 2500          \* grid of the audio lengths (ms)
MaxLenK == 2

OUTPUT_DIR == "audio_output"
PaddingNum == 15         \* PADDING_SEC = 0.15 = PaddingNum / PaddingDen
PaddingDen == 100
PADDING_SEC == FloatOfRatio(PaddingNum, PaddingDen)
MsPerSec == 1000
MaxWordChars == 20
MicrosPerSec == 1000000

Min(a, b) == IF a < b THEN a ELSE b
Max(a, b) == IF a > b THEN a ELSE b

(***************************************************************************)
(* Text: a string is a sequence of one-character strings.                  *)
(***************************************************************************)
AlnumChars == {"h", "o", "l", "a", "x", "1"}
IsAlnum(c) == c \in AlnumChars
IsSpace(c) == c = " "

RECURSIVE LStrip(_)
LStrip(s) == IF s # <<>> /\ IsSpace(Head(s)) THEN LStrip(Tail(s)) ELSE s

RECURSIVE RStrip(_)
RStrip(s) ==
    IF s # <<>> /\ IsSpace(s[Len(s)]) THEN RStrip(SubSeq(s, 1, Len(s) - 1)) ELSE s

\* str.strip()
Strip(s) == RStrip(LStrip(s))

\* s[:n]
Prefix(s, n) == SubSeq(s, 1, Min(n, Len(s)))

\* str.replace(" ", "_")
ReplaceSpaces(s) == [i \in 1..Len(s) |-> IF s[i] = " " THEN "_" ELSE s[i]]

\* line 48
SafeWord(word_text) ==
    LET kept == SelectSeq(Prefix(word_text, MaxWordChars),
                          LAMBDA c : IsAlnum(c) \/ c \in {"-", "_"})
        repl == ReplaceSpaces(kept)
    IN  IF repl = <<>> THEN <<"w", "o", "r", "d">> ELSE repl

\* line 66
SafeName(filename) ==
    SelectSeq(filename, LAMBDA c : IsAlnum(c) \/ c \in {"-", "_", "."})

\* datetime.strftime("%Y%m%d_%H%M%S_%f") of a clock reading in microseconds:
\* the date and time down to the second, then the six digits of the microsecond.
Strftime(t) == <<t \div MicrosPerSec, t % MicrosPerSec>>

(***************************************************************************)
(* Inputs.                                                                 *)
(***************************************************************************)
\* names of uploaded files: "a/x" (sanitised to "ax") and "?" (to "")
FileNames == {<<"a", "/", "x">>, <<"?">>}

\* len(audio) of the decoded upload, in milliseconds
AudioLens == {k * LenStep : k \in 1..MaxLenK}

\* a recognizer word: its raw text and its times in 1/TimeUnit seconds
Word(text, start, end) == [word |-> text, start |-> start, end |-> end]

\* " hola" from 1.0 s to 1.4 s (with the bounds as written)
ServiceWords ==
    {Word(<<" ", "h", "o", "l", "a">>, TimeUnit, TimeUnit + 2 * TimeStep)}

SeqsUpTo(S, n) == UNION {[1..k -> S] : k \in 0..n}

\* what the recognizer returns: result["text"] and result["segments"], each
\* segment the list of its words
Results ==
    {[text |-> <<" ", "h", "o", "l", "a">>, segments |-> segments] :
        segments \in SeqsUpTo(SeqsUpTo(ServiceWords, MaxSegWords), MaxSegs)}

(***************************************************************************)
(* State.                                                                  *)
(***************************************************************************)
VARIABLES
    clock,        \* the wall clock datetime.now() reads (lines 47, 65), in microseconds
    dirs,         \* the folders of OUTPUT_DIR (line 68)
    flat_files,   \* the files directly in OUTPUT_DIR (lines 50-51): [name, data]
    folder_files, \* the files in the folders of OUTPUT_DIR (lines 71-73): [dir, name, data]
    tmp,          \* the temporary files POST /transcribe left behind (lines 118-126)
    req,          \* the requests, each with its handler's locals and its output
    saved_log,    \* what save_word_audio printed and returned (lines 52-53), call by call
    clear_resp    \* the last response of DELETE /audio_files (lines 160-162), if any

vars == <<clock, dirs, flat_files, folder_files, tmp, req, saved_log, clear_resp>>

Reqs == 1..MaxReq

NoReq ==
    [pc |-> "idle", endpoint |-> "", filename |-> <<>>, upload_folder |-> <<>>,
     audio_len |-> -1, full_text |-> <<>>, segments |-> <<>>, si |-> 0, wi |-> 0,
     word_counter |-> 0, words_info |-> <<>>, start_ms |-> -1, end_ms |-> -1,
     events |-> <<>>, fault |-> "", response |-> <<>>]

Init ==
    /\ clock = 0
    /\ dirs = {}
    /\ flat_files = {}
    /\ folder_files = {}
    /\ tmp = {}
    /\ req = [r \in Reqs |-> NoReq]
    /\ saved_log = <<>>
    /\ clear_resp = <<>>

\* the exceptions the decoder and the recognizer raise
UpstreamFaults == {"CouldntDecodeError", "RecognizerError"}

(***************************************************************************)
(* save_word_audio(audio_segment, word_index, word_text), lines 46-53.     *)
(***************************************************************************)
save_word_audio_params == <<"audio_segment", "word_index", "word_text">>

\* line 49: f"{timestamp}_word{word_index}_{safe_word}.wav", kept as its parts
\* (the timestamp has a fixed width and the index is the run of digits after
\* "_word", so two names are equal exactly when their parts are)
WordFilename(now, word_index, word_text) ==
    [timestamp |-> Strftime(now), word |-> word_index, safe_word |-> SafeWord(word_text)]

\* lines 47-53: the file exported to os.path.join(OUTPUT_DIR, filename) and the
\* name printed and returned
save_word_audio(now, audio_segment, word_index, word_text) ==
    LET filename == WordFilename(now, word_index, word_text)
    IN  [filename |-> filename, dir |-> OUTPUT_DIR, data |-> audio_segment]

\* a call binds its positional arguments to the parameters, or raises TypeError
Binds(args, params) == Len(args) = Len(params)

\* the files fs after the file called name is written with data (created or replaced)
WriteFlat(fs, name, data) ==
    {f \in fs : f.name # name} \cup {[name |-> name, data |-> data]}

WriteInFolder(fs, dir, name, data) ==
    {f \in fs : ~(f.dir = dir /\ f.name = name)}
        \cup {[dir |-> dir, name |-> name, data |-> data]}

(***************************************************************************)
(* POST /transcribe_sse, lines 55-107.  event_generator runs between its   *)
(* yields; an exception it raises is caught nowhere in the handler and     *)
(* ends the stream (fault).                                                *)
(***************************************************************************)
Emit(q, ev) == [q EXCEPT !.events = Append(@, ev)]
Raise(q, exc) == [q EXCEPT !.pc = "fault", !.fault = exc]

\* line 67: the folder's name, f"{timestamp_folder}_{safe_name}", kept as its parts
UploadFolder(now, filename) ==
    [timestamp |-> Strftime(now), safe_name |-> SafeName(filename)]

\* lines 56-62: the upload is read, the stream starts with "received"
SseReceive(r, filename) ==
    /\ req[r].pc = "idle"
    /\ \A p \in 1..(r - 1) : req[p].pc # "idle"
    /\ req' = [req EXCEPT ![r] =
                 Emit([@ EXCEPT !.pc = "received", !.endpoint = "transcribe_sse",
                                !.filename = filename],
                      [status |-> "received", filename |-> filename])]
    /\ UNCHANGED <<clock, dirs, flat_files, folder_files, tmp, saved_log, clear_resp>>

\* how far a store operation gets: the folder or temporary file is not made
\* ("create"), the file is not opened ("open"), the file is opened, and so
\* created or emptied, but not written ("write"), or all of it succeeds ("ok")
SaveOutcomes == {"create", "open", "write", "ok"}
TempOutcomes == {"create", "write", "ok"}

\* lines 64-74: the upload's folder is made (os.makedirs, line 68) and the
\* upload is written into it (lines 72-73).  open() raises when the store
\* refuses it, and otherwise when safe_name is empty: the path is then the
\* folder itself.
SseSave(r, store) ==
    LET q         == req[r]
        folder    == UploadFolder(clock, q.filename)
        safe_name == folder.safe_name
        withdir   == [q EXCEPT !.upload_folder = folder]
    IN  /\ q.pc = "received"
        /\ IF store = "create" THEN
               /\ req' = [req EXCEPT ![r] = Raise(withdir, "OSError")]
               /\ UNCHANGED <<dirs, folder_files>>
           ELSE IF store = "open" THEN
               /\ dirs' = dirs \cup {folder}
               /\ req' = [req EXCEPT ![r] = Raise(withdir, "OSError")]
               /\ UNCHANGED folder_files
           ELSE IF safe_name = <<>> THEN
               /\ dirs' = dirs \cup {folder}
               /\ req' = [req EXCEPT ![r] = Raise(withdir, "IsADirectoryError")]
               /\ UNCHANGED folder_files
           ELSE IF store = "write" THEN
               /\ dirs' = dirs \cup {folder}
               /\ folder_files' = WriteInFolder(folder_files, folder, safe_name,
                                                [upload |-> q.filename, complete |-> FALSE])
               /\ req' = [req EXCEPT ![r] = Raise(withdir, "OSError")]
           ELSE
               /\ dirs' = dirs \cup {folder}
               /\ folder_files' = WriteInFolder(folder_files, folder, safe_name,
                                                [upload |-> q.filename, complete |-> TRUE])
               /\ req' = [req EXCEPT ![r] =
                            Emit([withdir EXCEPT !.pc = "saved"],
                                 [status |-> "saved",
                                  path |-> <<OUTPUT_DIR, folder, safe_name>>])]
        /\ UNCHANGED <<clock, flat_files, tmp, saved_log, clear_resp>>

\* lines 76-78: the decoder reads the upload: it raises, or the audio has a length
SseDecode(r, decoded, audio_len) ==
    /\ req[r].pc = "saved"
    /\ req' = [req EXCEPT ![r] =
                 IF ~decoded THEN Raise(@, "CouldntDecodeError")
                 ELSE Emit([@ EXCEPT !.pc = "started", !.audio_len = audio_len],
                           [status |-> "transcription_started"])]
    /\ UNCHANGED <<clock, dirs, flat_files, folder_files, tmp, saved_log, clear_resp>>

\* the first segment from si on that has a word, or Len(segments) + 1
RECURSIVE NextSegment(_, _)
NextSegment(segments, si) ==
    IF si > Len(segments) \/ segments[si] # <<>> THEN si
    ELSE NextSegment(segments, si + 1)

\* lines 80-88: the recognizer raises, or returns its result; the loops start
SseTranscribe(r, recognized, result) ==
    /\ req[r].pc = "started"
    /\ req' = [req EXCEPT ![r] =
                 IF ~recognized THEN Raise(@, "RecognizerError")
                 ELSE [@ EXCEPT !.pc = "words", !.full_text = Strip(result.text),
                                !.segments = result.segments,
                                !.words_info = <<>>, !.word_counter = 0,
                                !.si = NextSegment(result.segments, 1), !.wi = 1]]
    /\ UNCHANGED <<clock, dirs, flat_files, folder_files, tmp, saved_log, clear_resp>>

\* a word time, 1/TimeUnit seconds, as the float the recognizer gives
Seconds(t) == FloatOfRatio(t, TimeUnit)

\* line 91 without its max(..., 0)
StartMsUnclamped(w) ==
    IntOfFloat(FMul(FSub(Seconds(w.start), PADDING_SEC), FloatOfInt(MsPerSec)))

\* line 92 without its * 1000: the end taken in seconds
EndMsUnscaled(w, audio_len) ==
    Min(IntOfFloat(FAdd(Seconds(w.end), PADDING_SEC)), audio_len)

\* lines 91-92
StartMs(w) ==
    Max(IntOfFloat(FMul(FSub(Seconds(w.start), PADDING_SEC), FloatOfInt(MsPerSec))), 0)

EndMs(w, audio_len) ==
    Min(IntOfFloat(FMul(FAdd(Seconds(w.end), PADDING_SEC), FloatOfInt(MsPerSec))),
        audio_len)

\* line 93, audio[start_ms:end_ms]: the slice pydub cuts, both ends at most
\* len(audio), empty when they cross
Slice(audio_len, start_ms, end_ms) ==
    LET lo == Min(start_ms, audio_len)
        hi == Min(end_ms, audio_len)
    IN  [from |-> lo, to |-> Max(hi, lo)]

\* line 100: f"/audio/{os.path.basename(upload_folder)}/{word_filename}"
WordUrl(upload_folder, word_filename) == <<"audio", upload_folder, word_filename>>

\* lines 89-103: one word of the loops.  The call of line 94 passes four
\* arguments; lines 95-103 run when it returns.
SseWord(r) ==
    LET q          == req[r]
        w          == q.segments[q.si][q.wi]
        word_text  == Strip(w.word)
        start_ms   == StartMs(w)
        end_ms     == EndMs(w, q.audio_len)
        word_audio == Slice(q.audio_len, start_ms, end_ms)
        args       == <<word_audio, q.word_counter, word_text, q.upload_folder>>
        sliced     == [q EXCEPT !.start_ms = start_ms, !.end_ms = end_ms]
        saved      == save_word_audio(clock, args[1], args[2], args[3])
        last       == q.wi = Len(q.segments[q.si])
    IN  /\ q.pc = "words"
        /\ q.si <= Len(q.segments)
        /\ IF ~Binds(args, save_word_audio_params) THEN
               /\ req' = [req EXCEPT ![r] = Raise(sliced, "TypeError")]
               /\ UNCHANGED <<flat_files, saved_log>>
           ELSE
               /\ flat_files' = WriteFlat(flat_files, saved.filename, saved.data)
               /\ saved_log' = Append(saved_log, [by |-> r, filename |-> saved.filename])
               /\ req' = [req EXCEPT ![r] =
                            Emit([sliced EXCEPT
                                    !.words_info = Append(@,
                                        [index |-> q.word_counter,
                                         word  |-> word_text,
                                         start |-> w.start,
                                         end   |-> w.end,
                                         url   |-> WordUrl(q.upload_folder, saved.filename)]),
                                    !.word_counter = @ + 1,
                                    !.si = IF last THEN NextSegment(q.segments, q.si + 1)
                                                   ELSE q.si,
                                    !.wi = IF last THEN 1 ELSE q.wi + 1],
                                 [status |-> "word_processed",
                                  word_index |-> q.word_counter])]
        /\ UNCHANGED <<clock, dirs, folder_files, tmp, clear_resp>>

\* line 105: the loops are over
SseDone(r) ==
    LET q == req[r]
    IN  /\ q.pc = "words"
        /\ q.si > Len(q.segments)
        /\ req' = [req EXCEPT ![r] =
                     Emit([q EXCEPT !.pc = "done"],
                          [status |-> "done", text |-> q.full_text,
                           words_count |-> Len(q.words_info)])]
        /\ UNCHANGED <<clock, dirs, flat_files, folder_files, tmp, saved_log, clear_resp>>

(***************************************************************************)
(* POST /transcribe, lines 110-134: the whole handler, in its try.         *)
(***************************************************************************)
transcribe_audio(r, filename, store, recognized, result) ==
    /\ req[r].pc = "idle"
    /\ \A p \in 1..(r - 1) : req[p].pc # "idle"
    /\ LET q == [req[r] EXCEPT !.pc = "responded", !.endpoint = "transcribe",
                               !.filename = filename]
       IN  IF store = "create" THEN
               \* NamedTemporaryFile raises (line 118): no file is made
               /\ req' = [req EXCEPT ![r] =
                            [q EXCEPT !.response =
                                <<[status_code |-> 500, error |-> "OSError"]>>]]
               /\ UNCHANGED tmp
           ELSE IF store = "write" THEN
               \* the write or the close raises (lines 119-120): the file, made
               \* with delete=False, stays
               /\ req' = [req EXCEPT ![r] =
                            [q EXCEPT !.response =
                                <<[status_code |-> 500, error |-> "OSError"]>>]]
               /\ tmp' = tmp \cup {r}
           ELSE IF ~recognized THEN
               \* line 123 raises: line 126 is skipped, the temporary file stays
               /\ req' = [req EXCEPT ![r] =
                            [q EXCEPT !.response =
                                <<[status_code |-> 500, error |-> "RecognizerError"]>>]]
               /\ tmp' = tmp \cup {r}
           ELSE
               /\ req' = [req EXCEPT ![r] =
                            [q EXCEPT !.response =
                                <<[status_code |-> 200, text |-> Strip(result.text),
                                   segments |-> result.segments]>>]]
               /\ UNCHANGED tmp
    /\ UNCHANGED <<clock, dirs, flat_files, folder_files, saved_log, clear_resp>>

(***************************************************************************)
(* DELETE /audio_files, lines 153-162.  os.listdir (line 156) gives the    *)
(* entries of OUTPUT_DIR; an entry is removed (line 159) when              *)
(* os.path.isfile (line 158) answers True for it and is passed over        *)
(* otherwise.  isfile answers False for a folder, and also for a file      *)
(* whose stat fails (OUTPUT_DIR readable but not searchable), which then   *)
(* stays.  When os.listdir raises nothing is removed; a remove that raises *)
(* ends the loop with the files removed so far gone.  The message of line  *)
(* 160 is returned whenever nothing raised.                                *)
(*   isfile:  the files os.path.isfile answers True for                    *)
(*   removed: the files os.remove has removed when the handler returns     *)
(*   raised:  os.listdir or an os.remove raised                            *)
(***************************************************************************)
clear_audio_files(isfile, removed, raised) ==
    /\ isfile \subseteq flat_files
    /\ removed \subseteq isfile
    /\ ~raised => removed = isfile
    /\ raised => (removed = {} \/ removed # isfile)
    /\ flat_files' = flat_files \ removed
    /\ clear_resp' = <<IF raised THEN [error |-> "OSError"]
                                 ELSE [message |-> "All audio files cleared."]>>
    /\ UNCHANGED <<clock, dirs, folder_files, tmp, req, saved_log>>

\* the wall clock moves on
Tick ==
    /\ clock < MaxClock
    /\ clock' = clock + 1
    /\ UNCHANGED <<dirs, flat_files, folder_files, tmp, req, saved_log, clear_resp>>

Next ==
    \/ \E r \in Reqs, filename \in FileNames : SseReceive(r, filename)
    \/ \E r \in Reqs, store \in SaveOutcomes : SseSave(r, store)
    \/ \E r \in Reqs, decoded \in BOOLEAN, audio_len \in AudioLens :
          SseDecode(r, decoded, audio_len)
    \/ \E r \in Reqs, recognized \in BOOLEAN, result \in Results :
          SseTranscribe(r, recognized, result)
    \/ \E r \in Reqs : SseWord(r)
    \/ \E r \in Reqs : SseDone(r)
    \/ \E r \in Reqs, filename \in FileNames, store \in TempOutcomes,
          recognized \in BOOLEAN, result \in Results :
          transcribe_audio(r, filename, store, recognized, result)
    \/ \E isfile \in SUBSET flat_files, removed \in SUBSET flat_files,
          raised \in BOOLEAN : clear_audio_files(isfile, removed, raised)
    \/ Tick

Spec == Init /\ [][Next]_vars

(***************************************************************************)
(* The clip bounds alone: a request whose recognizer returned one word     *)
(* of any times of the grid, for an audio of any length of the grid, takes *)
(* the step of the word loop.                                              *)
(***************************************************************************)
GridTimes == {k * TimeStep : k \in 0..MaxTimeK}

GridWords ==
    {Word(<<" ", "h", "o", "l", "a">>, t[1], t[2]) :
        t \in {p \in GridTimes \X GridTimes : p[1] <= p[2]}}

\* the request after lines 56-88 ran without an exception
AtWordLoop(filename, now, audio_len, result) ==
    LET folder == UploadFolder(now, filename)
    IN  [NoReq EXCEPT
            !.pc = "words", !.endpoint = "transcribe_sse", !.filename = filename,
            !.upload_folder = folder, !.audio_len = audio_len,
            !.full_text = Strip(result.text), !.segments = result.segments,
            !.si = NextSegment(result.segments, 1), !.wi = 1,
            !.events = <<[status |-> "received", filename |-> filename],
                         [status |-> "saved",
                          path |-> <<OUTPUT_DIR, folder, folder.safe_name>>],
                         [status |-> "transcription_started"]>>]

InitBounds ==
    \E w \in GridWords, audio_len \in AudioLens, filename \in {<<"a", "/", "x">>} :
        /\ clock = 0
        /\ dirs = {UploadFolder(0, filename)}
        /\ flat_files = {}
        /\ folder_files = WriteInFolder({}, UploadFolder(0, filename),
                                        SafeName(filename),
                                        [upload |-> filename, complete |-> TRUE])
        /\ tmp = {}
        /\ req = [r \in Reqs |->
                    IF r = 1 THEN AtWordLoop(filename, 0, audio_len,
                                             [text |-> w.word, segments |-> <<<<w>>>>])
                             ELSE NoReq]
        /\ saved_log = <<>>
        /\ clear_resp = <<>>

NextBounds == SseWord(1)

SpecBounds == InitBounds /\ [][NextBounds]_vars

(***************************************************************************)
(* save_word_audio and DELETE /audio_files alone: invocations call         *)
(* save_word_audio as it is defined, with three arguments, each numbering  *)
(* its words from 0 as the word loop does (lines 86 and 103).              *)
(***************************************************************************)
\* word texts as the loop passes them, stripped: "hola", "hola!", "!"
SaveTexts == {<<"h", "o", "l", "a">>, <<"h", "o", "l", "a", "!">>, <<"!">>}

SaveAudio == {Slice(LenStep, 0, 1)}

CallsBy(inv) == Len(SelectSeq(saved_log, LAMBDA c : c.by = inv))

SaveWordCall(inv, word_audio, word_text) ==
    LET saved == save_word_audio(clock, word_audio, CallsBy(inv), word_text)
    IN  /\ Len(saved_log) < MaxCalls
        /\ flat_files' = WriteFlat(flat_files, saved.filename, saved.data)
        /\ saved_log' = Append(saved_log, [by |-> inv, filename |-> saved.filename])
        /\ UNCHANGED <<clock, dirs, folder_files, tmp, req, clear_resp>>

NextSave ==
    \/ \E inv \in Reqs, word_audio \in SaveAudio, word_text \in SaveTexts :
          SaveWordCall(inv, word_audio, word_text)
    \/ \E isfile \in SUBSET flat_files, removed \in SUBSET flat_files,
          raised \in BOOLEAN : clear_audio_files(isfile, removed, raised)
    \/ Tick

SpecSave == Init /\ [][NextSave]_vars

(***************************************************************************)
(* What the properties speak of.                                           *)
(***************************************************************************)
RECURSIVE Flatten(_)
Flatten(segments) ==
    IF segments = <<>> THEN <<>> ELSE Head(segments) \o Flatten(Tail(segments))

\* a /transcribe_sse request that ran to its end, by "done" or by an exception
Ended(q) == q.endpoint = "transcribe_sse" /\ q.pc \in {"done", "fault"}

\* its decoder and its recognizer returned
Recognized(q) == q.pc \in {"words", "done"} \/ (q.pc = "fault" /\ q.fault = "TypeError")

\* the request computed the bounds of a word (lines 91-93 ran)
Sliced(q) == q.start_ms # -1

\* the word whose bounds start_ms and end_ms are, when the step raised
SlicedWord(q) == q.segments[q.si][q.wi]

\* the clips save_word_audio persisted for request r, in order
ClipsBy(r) == SelectSeq(saved_log, LAMBDA c : c.by = r)

\* round(x) of Python: the nearest integer, ties to even
RoundOfFloat(x) ==
    IF x.e >= 0 THEN IntOfFloat(x)
    ELSE LET k    == 0 - x.e
             q    == BigShr(x.m, k)
             r    == BigSub(x.m, BigShl(q, k))
             c    == BigCmp(r, BigShl(<<1>>, k - 1))
             up   == c > 0 \/ (c = 0 /\ BigOdd(q))
             mag  == NatOfBig(IF up THEN BigAdd(q, <<1>>) ELSE q)
         IN  IF x.neg THEN 0 - mag ELSE mag

(***************************************************************************)
(* C1.  Every recognizer result handled by POST /transcribe_sse yields as  *)
(* many persisted clips and as many metadata records as it has words, the  *)
(* records in the order of the words in the segments.                      *)
(***************************************************************************)
C1_ClipPerWord ==
    \A r \in Reqs :
        (Ended(req[r]) /\ Recognized(req[r])) =>
            LET words == Flatten(req[r].segments)
                info  == req[r].words_info
            IN  /\ Len(info) = Len(words)
                /\ Len(ClipsBy(r)) = Len(words)
                /\ \A i \in 1..Len(words) :
                      /\ info[i].word = Strip(words[i].word)
                      /\ info[i].start = words[i].start
                      /\ info[i].end = words[i].end

(***************************************************************************)
(* C2.  A failure of the decoder or of the recognizer during a             *)
(* transcription request never leaves the handler as an unhandled          *)
(* exception: the client gets one structured error record, from            *)
(* POST /transcribe and from POST /transcribe_sse alike.  (No request      *)
(* comes to write a clip, the third collaborator call the claim names.)    *)
(***************************************************************************)
C2_FailuresReported ==
    \A r \in Reqs :
        /\ req[r].pc = "fault" => req[r].fault \notin UpstreamFaults
        /\ (req[r].endpoint = "transcribe" /\ req[r].pc = "responded") =>
              /\ Len(req[r].response) = 1
              /\ req[r].response[1].status_code \in {200, 500}

(***************************************************************************)
(* C3.  No two clips get the same filename: neither two words of one       *)
(* invocation, nor words of two invocations writing into the shared        *)
(* output directory, so that no clip replaces another.                     *)
(***************************************************************************)
C3_NoFilenameCollision ==
    \A i, j \in DOMAIN saved_log :
        i # j => saved_log[i].filename # saved_log[j].filename

(***************************************************************************)
(* C4.  As claimed: for every word (end >= start >= 0, also beyond the end *)
(* of the audio) the clamped bounds satisfy start_ms <= end_ms.            *)
(***************************************************************************)
C4_StartLeEnd ==
    \A r \in Reqs : Sliced(req[r]) => req[r].start_ms <= req[r].end_ms

(***************************************************************************)
(* C4, amended.  For every word (end >= start >= 0) whose clamped start    *)
(* does not lie beyond the end of the audio, start_ms <= end_ms.           *)
(***************************************************************************)
C4_StartLeEndWithinAudio ==
    \A r \in Reqs :
        (Sliced(req[r]) /\ req[r].start_ms <= req[r].audio_len) =>
            req[r].start_ms <= req[r].end_ms

\* a word that ends beyond the audio and starts inside it has been sliced
C4_Witness ==
    \E r \in Reqs :
        /\ Sliced(req[r])
        /\ SlicedWord(req[r]).end * MsPerSec > req[r].audio_len * TimeUnit
        /\ 0 < req[r].start_ms
        /\ req[r].start_ms < req[r].audio_len
        /\ req[r].end_ms = req[r].audio_len

(***************************************************************************)
(* C5.  The bounds stay inside the audio: start_ms >= 0, and 0 for a word  *)
(* that starts at 0; end_ms <= len(audio), and len(audio) for a word whose *)
(* padded end exceeds it.                                                  *)
(***************************************************************************)
PaddedEndExceeds(w, audio_len) ==
    (w.end * PaddingDen + PaddingNum * TimeUnit) * MsPerSec
        > audio_len * TimeUnit * PaddingDen

C5_BoundsInsideAudio ==
    \A r \in Reqs :
        Sliced(req[r]) =>
            LET q == req[r]
                w == SlicedWord(q)
            IN  /\ 0 <= q.start_ms
                /\ q.end_ms <= q.audio_len
                /\ w.start = 0 => q.start_ms = 0
                /\ PaddedEndExceeds(w, q.audio_len) => q.end_ms = q.audio_len

\* a word from 0 to beyond the end of the audio has been sliced
C5_Witness ==
    \E r \in Reqs :
        /\ Sliced(req[r])
        /\ SlicedWord(req[r]).start = 0
        /\ PaddedEndExceeds(SlicedWord(req[r]), req[r].audio_len)
        /\ req[r].start_ms = 0
        /\ req[r].end_ms = req[r].audio_len

(***************************************************************************)
(* C6.  The bounds are those of the reference formula, with rounding to    *)
(* the nearest unit: start = max(round((w.start - padding) * rate), 0) and *)
(* end = min(round((w.end + padding) * rate), length(audio)).              *)
(***************************************************************************)
C6_ReferenceFormula ==
    \A r \in Reqs :
        Sliced(req[r]) =>
            LET q == req[r]
                w == SlicedWord(q)
            IN  /\ q.start_ms =
                      Max(RoundOfFloat(FMul(FSub(Seconds(w.start), PADDING_SEC),
                                            FloatOfInt(MsPerSec))), 0)
                /\ q.end_ms =
                      Min(RoundOfFloat(FMul(FAdd(Seconds(w.end), PADDING_SEC),
                                            FloatOfInt(MsPerSec))), q.audio_len)

(***************************************************************************)
(* C7.  The word at position i (from 0, across the segments) gets index i, *)
(* in its metadata record and in the filename of its clip.                 *)
(***************************************************************************)
C7_IndexIsPosition ==
    \A r \in Reqs :
        (Ended(req[r]) /\ Recognized(req[r])) =>
            \A i \in 1..Len(Flatten(req[r].segments)) :
                /\ i <= Len(req[r].words_info)
                /\ req[r].words_info[i].index = i - 1
                /\ req[r].words_info[i].url[3].word = i - 1

(***************************************************************************)
(* C8.  When DELETE /audio_files reports success, no clip persisted by an  *)
(* earlier call remains in the store; it reports success or failure and    *)
(* nothing else.                                                           *)
(***************************************************************************)
ClearSucceeded == clear_resp = <<[message |-> "All audio files cleared."]>>
ClearFailed == clear_resp = <<[error |-> "OSError"]>>

C8_ClearRemovesEveryClip ==
    [][(\E isfile \in SUBSET flat_files, removed \in SUBSET flat_files,
           raised \in BOOLEAN : clear_audio_files(isfile, removed, raised))
        => /\ ClearSucceeded' \/ ClearFailed'
           /\ ClearSucceeded' => \A f \in flat_files : f \notin flat_files']_vars

(***************************************************************************)
(* C9.  The url of a word's metadata record names the place its clip was   *)
(* written to: the folder and filename under the /audio mount, rooted at   *)
(* the output directory, are those save_word_audio exported to.            *)
(***************************************************************************)
\* the place under OUTPUT_DIR a url of the /audio mount (line 43) serves
Served(url) == <<url[2], url[3]>>

C9_UrlNamesClip ==
    \A r \in Reqs :
        (Ended(req[r]) /\ Recognized(req[r])) =>
            \A i \in 1..Len(Flatten(req[r].segments)) :
                /\ i <= Len(req[r].words_info)
                /\ i <= Len(ClipsBy(r))
                /\ Served(req[r].words_info[i].url) = <<ClipsBy(r)[i].filename>>

(***************************************************************************)
(* C10.  A /transcribe_sse request whose decoder and recognizer returned   *)
(* emits received, saved, transcription_started, one word_processed per    *)
(* word with word_index 0, 1, ..., n-1, and ends with one done event whose *)
(* words_count is n.                                                       *)
(***************************************************************************)
C10_EventOrder ==
    \A r \in Reqs :
        (Ended(req[r]) /\ Recognized(req[r])) =>
            LET ev == req[r].events
                n  == Len(Flatten(req[r].segments))
            IN  /\ Len(ev) = n + 4
                /\ ev[1].status = "received"
                /\ ev[2].status = "saved"
                /\ ev[3].status = "transcription_started"
                /\ \A i \in 1..n : /\ ev[3 + i].status = "word_processed"
                                   /\ ev[3 + i].word_index = i - 1
                /\ ev[n + 4].status = "done"
                /\ ev[n + 4].words_count = n

====
